---- MODULE Spec2Model ----
(***************************************************************************)
(* Model of the two project.pbxproj patching scripts                       *)
(*   frontend/ImageHost/add_export_service.py   (script = "add")           *)
(*   frontend/imghost/integrate_xcconfig.py     (script = "xc")            *)
(*                                                                         *)
(* The document is a sequence of lexical tokens.  Every token stands for a *)
(* fixed piece of text of the pbxproj format, cut so that each regular     *)
(* expression and each str.replace of the scripts starts and ends on a     *)
(* token boundary:                                                         *)
(*   begin/end  the section comment  "/* Begin X section */"               *)
(*   id         the identifier that opens a block definition               *)
(*   open       " /* name */ = {"   (" = {" when name is empty)            *)
(*   isa        "isa = X;"                                                 *)
(*   children   "children = ("          files   "files = ("                *)
(*   item       "ref /* name */,"       one member of a collection         *)
(*   ws         the white space before the ")" of a collection             *)
(*   rparen     ");"                    rbrace  "};"                       *)
(*   attr       "name = ...;"  (ref is the identifier it points to)        *)
(*   entry      a one-line entry "id /* name */ = {isa = X; ... };"        *)
(***************************************************************************)
EXTENDS Integers, Sequences, FiniteSets, TLC

VARIABLES script, disk, content, pc, file_ref_uuid, build_file_uuid,
          exit_code, runs, doc0, start

vars == <<script, disk, content, pc, file_ref_uuid, build_file_uuid,
          exit_code, runs, doc0, start>>

\* Number of consecutive invocations of the script that are explored.
MaxRuns == 2

Tok(k, id, name, isa, ref) == [k |-> k, id |-> id, name |-> name, isa |-> isa, ref |-> ref]

Begin(section) == Tok("begin", "", section, "", "")
End(section) == Tok("end", "", section, "", "")
Id(id) == Tok("id", id, "", "", "")
Open(name) == Tok("open", "", name, "", "")
Isa(isa) == Tok("isa", "", "", isa, "")
Children == Tok("children", "", "", "", "")
Files == Tok("files", "", "", "", "")
Item(ref, name) == Tok("item", "", name, "", ref)
Ws == Tok("ws", "", "", "", "")
RParen == Tok("rparen", "", "", "", "")
RBrace == Tok("rbrace", "", "", "", "")
Attr(name, ref) == Tok("attr", "", name, "", ref)
Entry(id, name, isa, ref) == Tok("entry", id, name, isa, ref)

\* The character classes [^}] and [^)] of the two collection patterns.
HasRBrace(t) == t.k \in {"rbrace", "entry"} \/ (t.k = "attr" /\ t.name = "buildSettings")
HasRParen(t) == t.k = "rparen"

\* Values uuid.uuid4().hex[:24].upper() can return: two calls may return the
\* same token, and a token returned in an earlier run.
UUIDs == {"U1", "U2"}

\* integrate_xcconfig.py, the hard-coded identifiers.
debug_xcconfig_ref == "A10000F1000"
release_xcconfig_ref == "A10000F2000"
config_group_ref == "A10000F3000"
root_group_id == "A10000A0000"
debug_config_id == "A1000180000"
release_config_id == "A1000190000"

(***************************************************************************)
(* str.replace(old, new): every non-overlapping occurrence, left to right. *)
(***************************************************************************)
RECURSIVE ReplaceFrom(_, _, _, _)
ReplaceFrom(s, old, new, i) ==
  IF i > Len(s) THEN <<>>
  ELSE IF i + Len(old) - 1 <= Len(s) /\ SubSeq(s, i, i + Len(old) - 1) = old
       THEN new \o ReplaceFrom(s, old, new, i + Len(old))
       ELSE <<s[i]>> \o ReplaceFrom(s, old, new, i + 1)

Replace(s, old, new) == ReplaceFrom(s, old, new, 1)

\* A replacement that drops the matched text.
AppendTo_dropping(matched, new_text) == new_text

\* The replacement the scripts build: the matched text followed by the new text.
AppendTo(matched, new_text) == matched \o new_text

\* The replacement of integrate_xcconfig steps 1 and 2: new text, then the marker.
PrependTo(matched, new_text) == new_text \o matched

Max(S) == CHOOSE x \in S : \A y \in S : y <= x
Min(S) == CHOOSE x \in S : \A y \in S : x <= y

(***************************************************************************)
(* re.search(r'(/\* NAME \*/ = \{[^}]+COLL = \([^)]+)', s)                 *)
(* A match starts on the open token of NAME, runs over one or more tokens  *)
(* without "}" to a COLL token, and then over one or more tokens without   *)
(* ")".  Both classes are greedy; the search returns the leftmost match.   *)
(***************************************************************************)
CollAt(s, i, coll) ==
  {j \in (i + 2)..(Len(s) - 1) :
      /\ s[j] = coll
      /\ \A x \in (i + 1)..(j - 1) : ~HasRBrace(s[x])
      /\ ~HasRParen(s[j + 1])}

MatchStarts(s, name, coll) ==
  {i \in 1..Len(s) : s[i] = Open(name) /\ CollAt(s, i, coll) # {}}

MatchEnd(s, j) ==
  Max({e \in (j + 1)..Len(s) : \A x \in (j + 1)..e : ~HasRParen(s[x])})

\* group(1) of the match, <<>> when the search returns None.
collection_match(s, name, coll) ==
  IF MatchStarts(s, name, coll) = {} THEN <<>>
  ELSE LET i == Min(MatchStarts(s, name, coll))
           j == Max(CollAt(s, i, coll))
       IN SubSeq(s, i, MatchEnd(s, j))

services_match(s) == collection_match(s, "Services", Children)
sources_match(s) == collection_match(s, "Sources", Files)

\* re.search of a section marker comment.
marker_match(s, marker) == \E i \in 1..Len(s) : s[i] = marker

(***************************************************************************)
(* Documents the scripts are started on.  Each part of a project file that *)
(* one of the patterns anchors on is present or absent independently.      *)
(***************************************************************************)
Group(id, name, kids) ==
  <<Id(id), Open(name), Isa("PBXGroup"), Children>> \o kids
     \o <<RParen, Attr("sourceTree", ""), RBrace>>

BuildFileSection(present) ==
  IF present
  THEN <<Begin("PBXBuildFile"),
         Entry("B0", "Api.swift in Sources", "PBXBuildFile", "C1"),
         End("PBXBuildFile")>>
  ELSE <<>>

ServicesShapes == {"none", "empty", "compact", "one", "two"}

ServicesGroups(shape) ==
  CASE shape = "none" -> Group("G1", "Views", <<Ws>>)
    [] shape = "empty" -> Group("S1", "Services", <<Ws>>)
    [] shape = "compact" -> Group("S1", "Services", <<>>)
    [] shape = "one" -> Group("S1", "Services", <<Item("C1", "Api.swift"), Ws>>)
    [] shape = "two" -> Group("S1", "Services", <<Ws>>) \o Group("S2", "Services", <<Ws>>)

SourcesShapes == {"none", "empty", "one"}

SourcesPhase(shape) ==
  CASE shape = "none" -> <<>>
    [] shape = "empty" ->
         <<Id("P1"), Open("Sources"), Isa("PBXSourcesBuildPhase"), Files, Ws, RParen, RBrace>>
    [] shape = "one" ->
         <<Id("P1"), Open("Sources"), Isa("PBXSourcesBuildPhase"), Files,
           Item("B0", "Api.swift in Sources"), Ws, RParen, RBrace>>

AddFileRefSection(present) ==
  IF present
  THEN <<Begin("PBXFileReference"),
         Entry("C1", "Api.swift", "PBXFileReference", ""),
         End("PBXFileReference")>>
  ELSE <<>>

AddDocs ==
  {BuildFileSection(bf) \o AddFileRefSection(fr)
      \o <<Begin("PBXGroup")>> \o ServicesGroups(sv) \o <<End("PBXGroup")>>
      \o SourcesPhase(src) :
   bf \in BOOLEAN, fr \in BOOLEAN, sv \in ServicesShapes, src \in SourcesShapes}

FileRefShapes == {"none", "plain", "debug", "clash"}

XcFileRefSection(shape) ==
  CASE shape = "none" -> <<>>
    [] shape = "plain" ->
         <<Begin("PBXFileReference"),
           Entry("C1", "Api.swift", "PBXFileReference", ""),
           End("PBXFileReference")>>
    [] shape = "debug" ->
         <<Begin("PBXFileReference"),
           Entry("D1", "Debug.xcconfig", "PBXFileReference", ""),
           End("PBXFileReference")>>
    [] shape = "clash" ->
         <<Begin("PBXFileReference"),
           Entry(debug_xcconfig_ref, "Api.swift", "PBXFileReference", ""),
           End("PBXFileReference")>>

RootGroup(present) ==
  IF present THEN Group(root_group_id, "", <<Item("G1", "ImageHost"), Ws>>) ELSE <<>>

GroupSection(markers, root) ==
  IF markers
  THEN <<Begin("PBXGroup")>> \o RootGroup(root) \o <<End("PBXGroup")>>
  ELSE RootGroup(root)

BuildConfiguration(present, id, name) ==
  IF present
  THEN <<Id(id), Open(name), Isa("XCBuildConfiguration"), Attr("buildSettings", ""), RBrace>>
  ELSE <<>>

XcDocs ==
  {XcFileRefSection(fr) \o GroupSection(gs, root)
      \o <<Begin("XCBuildConfiguration")>>
      \o BuildConfiguration(dbg, debug_config_id, "Debug")
      \o BuildConfiguration(rel, release_config_id, "Release")
      \o <<End("XCBuildConfiguration")>> :
   fr \in FileRefShapes, gs \in BOOLEAN, root \in BOOLEAN,
   dbg \in BOOLEAN, rel \in BOOLEAN}

Init ==
  /\ script \in {"add", "xc"}
  /\ disk \in (IF script = "add" THEN AddDocs ELSE XcDocs)
  /\ content = <<>>
  /\ pc = "start"
  /\ file_ref_uuid = ""
  /\ build_file_uuid = ""
  /\ exit_code = 0
  /\ runs = 0
  /\ doc0 = disk
  /\ start = disk

(***************************************************************************)
(* add_export_service.py                                                   *)
(***************************************************************************)
\* Lines 6-11: read the project file, generate the two identifiers.
add_read ==
  /\ script = "add"
  /\ pc \in {"start", "done", "exited"}
  /\ runs < MaxRuns
  /\ runs' = runs + 1
  /\ content' = disk
  /\ start' = disk
  /\ exit_code' = 0
  /\ file_ref_uuid' \in UUIDs
  /\ build_file_uuid' \in UUIDs
  /\ pc' = "services"
  /\ UNCHANGED <<script, disk, doc0>>

services_child(ref) == <<Item(ref, "ExportService.swift")>>

\* The Services step without its exit: a missing group is skipped like the
\* other anchors.
add_services_skipping ==
  /\ script = "add"
  /\ pc = "services"
  /\ IF services_match(content) = <<>>
     THEN UNCHANGED content
     ELSE content' = Replace(content, services_match(content),
                       AppendTo(services_match(content), services_child(file_ref_uuid)))
  /\ pc' = "build_file"
  /\ UNCHANGED <<script, disk, file_ref_uuid, build_file_uuid, exit_code, runs, doc0, start>>

\* Lines 13-22: the Services group; exit(1) when the pattern is not found.
add_services ==
  /\ script = "add"
  /\ pc = "services"
  /\ IF services_match(content) = <<>>
     THEN /\ exit_code' = 1
          /\ pc' = "exited"
          /\ UNCHANGED content
     ELSE /\ content' = Replace(content, services_match(content),
                          AppendTo(services_match(content), services_child(file_ref_uuid)))
          /\ pc' = "build_file"
          /\ UNCHANGED exit_code
  /\ UNCHANGED <<script, disk, file_ref_uuid, build_file_uuid, runs, doc0, start>>

build_file_entry(id, ref) ==
  <<Entry(id, "ExportService.swift in Sources", "PBXBuildFile", ref)>>

\* The PBXBuildFile step treating a missing marker as fatal, as the Services
\* step does.
add_build_file_fatal ==
  /\ script = "add"
  /\ pc = "build_file"
  /\ IF marker_match(content, Begin("PBXBuildFile"))
     THEN /\ content' = Replace(content, <<Begin("PBXBuildFile")>>,
                          AppendTo(<<Begin("PBXBuildFile")>>,
                                   build_file_entry(build_file_uuid, file_ref_uuid)))
          /\ pc' = "file_ref"
          /\ UNCHANGED exit_code
     ELSE /\ exit_code' = 1
          /\ pc' = "exited"
          /\ UNCHANGED content
  /\ UNCHANGED <<script, disk, file_ref_uuid, build_file_uuid, runs, doc0, start>>

\* Lines 24-29: the PBXBuildFile section.
add_build_file ==
  /\ script = "add"
  /\ pc = "build_file"
  /\ IF marker_match(content, Begin("PBXBuildFile"))
     THEN content' = Replace(content, <<Begin("PBXBuildFile")>>,
                       AppendTo(<<Begin("PBXBuildFile")>>,
                                build_file_entry(build_file_uuid, file_ref_uuid)))
     ELSE UNCHANGED content
  /\ pc' = "file_ref"
  /\ UNCHANGED <<script, disk, file_ref_uuid, build_file_uuid, exit_code, runs, doc0, start>>

file_ref_entry(id) == <<Entry(id, "ExportService.swift", "PBXFileReference", "")>>

\* Lines 31-36: the PBXFileReference section.
add_file_ref ==
  /\ script = "add"
  /\ pc = "file_ref"
  /\ IF marker_match(content, Begin("PBXFileReference"))
     THEN content' = Replace(content, <<Begin("PBXFileReference")>>,
                       AppendTo(<<Begin("PBXFileReference")>>, file_ref_entry(file_ref_uuid)))
     ELSE UNCHANGED content
  /\ pc' = "sources"
  /\ UNCHANGED <<script, disk, file_ref_uuid, build_file_uuid, exit_code, runs, doc0, start>>

sources_file(ref) == <<Item(ref, "ExportService.swift in Sources")>>

\* Lines 38-43: the Sources build phase.
add_sources ==
  /\ script = "add"
  /\ pc = "sources"
  /\ IF sources_match(content) # <<>>
     THEN content' = Replace(content, sources_match(content),
                       AppendTo(sources_match(content), sources_file(build_file_uuid)))
     ELSE UNCHANGED content
  /\ pc' = "write"
  /\ UNCHANGED <<script, disk, file_ref_uuid, build_file_uuid, exit_code, runs, doc0, start>>

\* Lines 45-47: write the content back.
add_write ==
  /\ script = "add"
  /\ pc = "write"
  /\ disk' = content
  /\ pc' = "done"
  /\ UNCHANGED <<script, content, file_ref_uuid, build_file_uuid, exit_code, runs, doc0, start>>

AddNext ==
  \/ add_read
  \/ add_services
  \/ add_build_file
  \/ add_file_ref
  \/ add_sources
  \/ add_write

(***************************************************************************)
(* integrate_xcconfig.py                                                   *)
(***************************************************************************)
\* re.search(r'/\* Begin X section \*/(.*?)/\* End X section \*/', s, re.DOTALL):
\* the first Begin marker and the first End marker after it.
SectionBegin(s, name) == Min({i \in 1..Len(s) : s[i] = Begin(name)})
SectionEnd(s, name) ==
  Min({j \in (SectionBegin(s, name) + 1)..Len(s) : s[j] = End(name)})

section_found(s, name) ==
  \E i \in 1..Len(s) : s[i] = Begin(name) /\ \E j \in (i + 1)..Len(s) : s[j] = End(name)

\* group(1) of the section match.
section_body(s, name) == SubSeq(s, SectionBegin(s, name) + 1, SectionEnd(s, name) - 1)

\* re.sub(pattern, r'\1' + new_text, s) for a pattern that is a fixed run of
\* tokens, followed by \s* when trailing_ws: every non-overlapping match.
RECURSIVE SubFrom(_, _, _, _, _)
SubFrom(s, pattern, trailing_ws, new_text, i) ==
  IF i > Len(s) THEN <<>>
  ELSE IF i + Len(pattern) - 1 <= Len(s) /\ SubSeq(s, i, i + Len(pattern) - 1) = pattern
       THEN LET n == IF /\ trailing_ws
                        /\ i + Len(pattern) <= Len(s)
                        /\ s[i + Len(pattern)] = Ws
                     THEN Len(pattern) + 1 ELSE Len(pattern)
            IN AppendTo(SubSeq(s, i, i + n - 1), new_text)
                 \o SubFrom(s, pattern, trailing_ws, new_text, i + n)
       ELSE <<s[i]>> \o SubFrom(s, pattern, trailing_ws, new_text, i + 1)

re_sub(s, pattern, trailing_ws, new_text) == SubFrom(s, pattern, trailing_ws, new_text, 1)

\* Step 1 without its check for an existing reference.
xcconfig_referenced_unchecked(file_refs) == FALSE

\* Line 28: 'Debug.xcconfig' in file_refs
xcconfig_referenced(file_refs) ==
  \E i \in 1..Len(file_refs) : file_refs[i].name = "Debug.xcconfig"

\* Step 2 without its check for an existing Config group.
config_group_exists_unchecked(groups) == FALSE

\* Line 44: config_group_ref in groups
config_group_exists(groups) ==
  \E i \in 1..Len(groups) :
     groups[i].id = config_group_ref \/ groups[i].ref = config_group_ref

\* Lines 30-31.
new_refs ==
  <<Entry(debug_xcconfig_ref, "Debug.xcconfig", "PBXFileReference", ""),
    Entry(release_xcconfig_ref, "Release.xcconfig", "PBXFileReference", "")>>

\* Lines 46-54.
config_group ==
  <<Id(config_group_ref), Open("Config"), Isa("PBXGroup"), Children,
    Item(debug_xcconfig_ref, "Debug.xcconfig"),
    Item(release_xcconfig_ref, "Release.xcconfig"),
    Ws, RParen, Attr("path", ""), Attr("sourceTree", ""), RBrace>>

\* Line 64.
root_group_pattern == <<Id(root_group_id), Open(""), Isa("PBXGroup"), Children>>
\* Line 65.
root_group_child == <<Item(config_group_ref, "Config")>>

\* Lines 70 and 78.
debug_config_pattern == <<Id(debug_config_id), Open("Debug"), Isa("XCBuildConfiguration")>>
release_config_pattern == <<Id(release_config_id), Open("Release"), Isa("XCBuildConfiguration")>>

base_configuration(ref) == <<Attr("baseConfigurationReference", ref)>>

\* Lines 14-20.
xc_read ==
  /\ script = "xc"
  /\ pc \in {"start", "done"}
  /\ runs < MaxRuns
  /\ runs' = runs + 1
  /\ content' = disk
  /\ start' = disk
  /\ pc' = "step1"
  /\ UNCHANGED <<script, disk, file_ref_uuid, build_file_uuid, exit_code, doc0>>

\* Lines 22-36, Step 1: file references for the xcconfig files.
step1(s) ==
  IF section_found(s, "PBXFileReference")
       /\ ~xcconfig_referenced(section_body(s, "PBXFileReference"))
  THEN Replace(s, <<End("PBXFileReference")>>,
               PrependTo(<<End("PBXFileReference")>>, new_refs))
  ELSE s

xc_step1 ==
  /\ script = "xc"
  /\ pc = "step1"
  /\ content' = step1(content)
  /\ pc' = "step2"
  /\ UNCHANGED <<script, disk, file_ref_uuid, build_file_uuid, exit_code, runs, doc0, start>>

\* Lines 38-66, Step 2: the Config group and its membership in the root group.
step2(s) ==
  IF section_found(s, "PBXGroup") /\ ~config_group_exists(section_body(s, "PBXGroup"))
  THEN re_sub(Replace(s, <<End("PBXGroup")>>,
                      PrependTo(<<End("PBXGroup")>>, config_group)),
              root_group_pattern, TRUE, root_group_child)
  ELSE s

xc_step2 ==
  /\ script = "xc"
  /\ pc = "step2"
  /\ content' = step2(content)
  /\ pc' = "step3_debug"
  /\ UNCHANGED <<script, disk, file_ref_uuid, build_file_uuid, exit_code, runs, doc0, start>>

\* Lines 68-75, Step 3: the Debug configuration of the project.
xc_step3_debug ==
  /\ script = "xc"
  /\ pc = "step3_debug"
  /\ content' = re_sub(content, debug_config_pattern, FALSE,
                       base_configuration(debug_xcconfig_ref))
  /\ pc' = "step3_release"
  /\ UNCHANGED <<script, disk, file_ref_uuid, build_file_uuid, exit_code, runs, doc0, start>>

\* Lines 77-83, Step 3: the Release configuration of the project.
xc_step3_release ==
  /\ script = "xc"
  /\ pc = "step3_release"
  /\ content' = re_sub(content, release_config_pattern, FALSE,
                       base_configuration(release_xcconfig_ref))
  /\ pc' = "write"
  /\ UNCHANGED <<script, disk, file_ref_uuid, build_file_uuid, exit_code, runs, doc0, start>>

\* Lines 85-87: write back to the file.
xc_write ==
  /\ script = "xc"
  /\ pc = "write"
  /\ disk' = content
  /\ pc' = "done"
  /\ UNCHANGED <<script, content, file_ref_uuid, build_file_uuid, exit_code, runs, doc0, start>>

XcNext ==
  \/ xc_read
  \/ xc_step1
  \/ xc_step2
  \/ xc_step3_debug
  \/ xc_step3_release
  \/ xc_write

Next == AddNext \/ XcNext

Spec == Init /\ [][Next]_vars

(***************************************************************************)
(* Observations on documents                                               *)
(***************************************************************************)
\* The text of s contains name / contains identifier id.
MentionsName(name, s) == \E i \in 1..Len(s) : s[i].name = name
MentionsId(id, s) == \E i \in 1..Len(s) : s[i].id = id \/ s[i].ref = id

Count(s, t) == Cardinality({i \in 1..Len(s) : s[i] = t})

Occurs(s, pattern) ==
  \E i \in 1..Len(s) :
     i + Len(pattern) - 1 <= Len(s) /\ SubSeq(s, i, i + Len(pattern) - 1) = pattern

\* Positions that define an entry, and the identifiers defined.
Definitions(s) == {i \in 1..Len(s) : s[i].k \in {"id", "entry"}}
DefinedIds(s) == {s[i].id : i \in Definitions(s)}
IdsDistinct(s) == \A i, j \in Definitions(s) : i # j => s[i].id # s[j].id

\* Occurrences of token t added between document s0 and document s.
Added(s0, s, t) == Count(s, t) - Count(s0, t)

\* Identifiers referenced by the tokens added between s0 and s.
InsertedRefs(s0, s) ==
  {s[i].ref : i \in {x \in 1..Len(s) : s[x].ref # "" /\ Added(s0, s, s[x]) > 0}}

RECURSIVE SubseqFrom(_, _, _, _)
SubseqFrom(a, b, i, j) ==
  IF i > Len(a) THEN TRUE
  ELSE IF j > Len(b) THEN FALSE
  ELSE IF a[i] = b[j] THEN SubseqFrom(a, b, i + 1, j + 1)
  ELSE SubseqFrom(a, b, i, j + 1)

\* b is a with text inserted: deleting some tokens of b gives back a.
IsSubseq(a, b) == SubseqFrom(a, b, 1, 1)

\* The block defined under identifier id: from its id token to its closing "};".
HasBlock(s, id) == \E p \in 1..Len(s) : s[p] = Id(id)
BlockFirst(s, id) == Min({p \in 1..Len(s) : s[p] = Id(id)})
BlockLast(s, id) == Min({q \in (BlockFirst(s, id) + 1)..Len(s) : s[q] = RBrace})
BaseRefs(s, id) ==
  {i \in BlockFirst(s, id)..BlockLast(s, id) :
      s[i].k = "attr" /\ s[i].name = "baseConfigurationReference"}

FileRefIds(s, name) ==
  {s[i].id : i \in {x \in 1..Len(s) :
      s[x].k = "entry" /\ s[x].isa = "PBXFileReference" /\ s[x].name = name}}

\* The members of the first collection that follows the open token of name.
CollFirst(s, name) == Min({p \in 1..Len(s) : s[p] = Open(name)}) + 2
CollLast(s, name) == Min({q \in CollFirst(s, name)..Len(s) : s[q] = RParen})
Members(s, name) ==
  {i \in CollFirst(s, name)..CollLast(s, name) : s[i].k = "item"}

Finished == pc = "done"

(***************************************************************************)
(* Claims                                                                  *)
(***************************************************************************)

\* C1: a second run of a script that ran to completion leaves the document
\* as the first run left it (no entry or attribute is inserted twice).
C1_Idempotent == (Finished /\ runs >= 2) => disk = start

\* C2: when the Services group pattern is not found, add_export_service ends
\* with exit code 1, applies no further directive and never writes the file.
C2_FatalLeavesDisk ==
  (script = "add" /\ pc \notin {"start", "services"} /\ services_match(start) = <<>>)
     => (pc = "exited" /\ exit_code = 1 /\ content = start /\ disk = start)

C2_Witness ==
  /\ script = "add" /\ pc = "exited" /\ exit_code = 1
  /\ services_match(start) = <<>> /\ Occurs(start, <<Open("Services")>>)

\* C3: every identifier referenced by a token a completed run inserted is
\* defined as an entry of the final document.
C3_RefsDefined == Finished => InsertedRefs(start, disk) \subseteq DefinedIds(disk)

\* C4: on a document whose Debug and Release configurations both lack a
\* baseConfigurationReference, integrate_xcconfig leaves exactly one in each,
\* pointing to the Debug.xcconfig / Release.xcconfig file reference entry.
C4_Precondition ==
  /\ script = "xc"
  /\ HasBlock(start, debug_config_id) /\ BaseRefs(start, debug_config_id) = {}
  /\ HasBlock(start, release_config_id) /\ BaseRefs(start, release_config_id) = {}

C4_BaseConfiguration ==
  (Finished /\ C4_Precondition) =>
     /\ Cardinality(BaseRefs(disk, debug_config_id)) = 1
     /\ \A i \in BaseRefs(disk, debug_config_id) :
           disk[i].ref \in FileRefIds(disk, "Debug.xcconfig")
     /\ Cardinality(BaseRefs(disk, release_config_id)) = 1
     /\ \A i \in BaseRefs(disk, release_config_id) :
           disk[i].ref \in FileRefIds(disk, "Release.xcconfig")

\* C5: on a document with a Services group whose children collection is
\* empty, add_export_service leaves exactly one child in it, the new file
\* reference identifier, with a file reference entry defined under that
\* identifier and a build file entry whose fileRef is that identifier.
C5_Precondition ==
  /\ script = "add"
  /\ Occurs(start, <<Open("Services"), Isa("PBXGroup"), Children, Ws, RParen>>)
  /\ Members(start, "Services") = {}

C5_FileRegistered ==
  (Finished /\ C5_Precondition) =>
     /\ Cardinality(Members(disk, "Services")) = 1
     /\ \A i \in Members(disk, "Services") : disk[i].ref = file_ref_uuid
     /\ file_ref_uuid \in FileRefIds(disk, "ExportService.swift")
     /\ \E i \in 1..Len(disk) :
           /\ disk[i].k = "entry" /\ disk[i].isa = "PBXBuildFile"
           /\ disk[i].ref = file_ref_uuid

\* C6: when the PBXFileReference section of the initial document already
\* mentions Debug.xcconfig, no run of integrate_xcconfig changes the content
\* of that section.
C6_Precondition ==
  /\ script = "xc"
  /\ section_found(doc0, "PBXFileReference")
  /\ MentionsName("Debug.xcconfig", section_body(doc0, "PBXFileReference"))

C6_FileRefsKept ==
  C6_Precondition =>
     /\ section_found(disk, "PBXFileReference")
     /\ section_body(disk, "PBXFileReference") = section_body(doc0, "PBXFileReference")
     /\ pc # "start" =>
          /\ section_found(content, "PBXFileReference")
          /\ section_body(content, "PBXFileReference")
               = section_body(doc0, "PBXFileReference")

C6_Witness == C6_Precondition /\ Finished /\ runs >= 2 /\ disk # doc0

\* C7: a completed run on a document with pairwise distinct entry
\* identifiers leaves a document with pairwise distinct entry identifiers.
C7_IdsDistinct == (Finished /\ IdsDistinct(start)) => IdsDistinct(disk)

\* C8: a missing secondary anchor is not fatal.  A directive whose anchor is
\* absent inserts nothing, a directive whose anchor is present (and whose
\* idempotence guard does not fire) is applied, the document is written and
\* the only failure exit is the missing Services group.
C8_NoOtherFailure ==
  /\ pc = "exited" => (script = "add" /\ exit_code = 1 /\ services_match(start) = <<>>)
  /\ Finished => (exit_code = 0 /\ disk = content)

C8_AddDirectives ==
  (script = "add" /\ Finished) =>
     /\ Added(start, disk, services_child(file_ref_uuid)[1]) > 0
     /\ Added(start, disk, build_file_entry(build_file_uuid, file_ref_uuid)[1])
          = Count(start, Begin("PBXBuildFile"))
     /\ Added(start, disk, file_ref_entry(file_ref_uuid)[1])
          = Count(start, Begin("PBXFileReference"))
     /\ (Added(start, disk, sources_file(build_file_uuid)[1]) > 0)
          <=> (sources_match(start) # <<>>)
     /\ (Added(start, disk, sources_file(build_file_uuid)[1]) = 0)
          <=> (sources_match(start) = <<>>)

C8_XcSections ==
  (script = "xc" /\ Finished) =>
     /\ \A i \in 1..Len(new_refs) :
          Added(start, disk, new_refs[i]) =
            IF section_found(start, "PBXFileReference")
                 /\ ~MentionsName("Debug.xcconfig", section_body(start, "PBXFileReference"))
            THEN 1 ELSE 0
     /\ \A t \in {Id(config_group_ref), Open("Config")} :
          Added(start, disk, t) =
            IF section_found(start, "PBXGroup")
                 /\ ~MentionsId(config_group_ref, section_body(start, "PBXGroup"))
            THEN 1 ELSE 0
     /\ Added(start, disk, base_configuration(debug_xcconfig_ref)[1])
          = IF Occurs(start, debug_config_pattern) THEN 1 ELSE 0
     /\ Added(start, disk, base_configuration(release_xcconfig_ref)[1])
          = IF Occurs(start, release_config_pattern) THEN 1 ELSE 0

\* C8 as stated: the root group directive is applied whenever the root group
\* anchor is present and the root group does not list the Config child yet.
C8_SecondaryAnchors ==
  /\ C8_NoOtherFailure
  /\ C8_AddDirectives
  /\ C8_XcSections
  /\ (script = "xc" /\ Finished) =>
        Added(start, disk, root_group_child[1]) =
          IF Occurs(start, root_group_pattern) /\ Count(start, root_group_child[1]) = 0
          THEN 1 ELSE 0

\* C8 amended: the root group directive is applied when the root group anchor
\* is present and Step 2 inserts the Config group, that is, when the PBXGroup
\* section is found and does not mention A10000F3000.
C8_SecondaryAnchorsAmended ==
  /\ C8_NoOtherFailure
  /\ C8_AddDirectives
  /\ C8_XcSections
  /\ (script = "xc" /\ Finished) =>
        Added(start, disk, root_group_child[1]) =
          IF /\ Occurs(start, root_group_pattern)
             /\ section_found(start, "PBXGroup")
             /\ ~MentionsId(config_group_ref, section_body(start, "PBXGroup"))
          THEN 1 ELSE 0

C8_Witness ==
  /\ script = "xc" /\ Finished /\ exit_code = 0
  /\ ~section_found(start, "PBXGroup") /\ Occurs(start, root_group_pattern)
  /\ ~Occurs(start, release_config_pattern)
  /\ Added(start, disk, root_group_child[1]) = 0
  /\ Added(start, disk, base_configuration(debug_xcconfig_ref)[1]) = 1

\* C9: patching only inserts text.  The document on disk is the initial
\* document with tokens inserted, the content in memory is the document read
\* with tokens inserted, and every section marker is kept.
C9_InsertOnly ==
  /\ IsSubseq(doc0, disk)
  /\ pc # "start" => IsSubseq(start, content)
  /\ \A i \in 1..Len(doc0) :
       doc0[i].k \in {"begin", "end"} => Count(disk, doc0[i]) = Count(doc0, doc0[i])

C9_Witness == Finished /\ runs >= 2 /\ Len(disk) > Len(start) /\ Len(start) > Len(doc0)

\* C10: from a document with one PBXGroup section that does not mention
\* A10000F3000, any number of runs of integrate_xcconfig leaves at most one
\* Config group definition and at most one Config child in the root group;
\* a run never adds the child without adding the definition, and a run that
\* finds A10000F3000 in the PBXGroup section changes neither.
C10_Precondition ==
  /\ script = "xc"
  /\ Count(doc0, Begin("PBXGroup")) = 1
  /\ Count(doc0, End("PBXGroup")) = 1
  /\ section_found(doc0, "PBXGroup")
  /\ ~MentionsId(config_group_ref, section_body(doc0, "PBXGroup"))

C10_ConfigGroupOnce ==
  (C10_Precondition /\ pc # "start") =>
     /\ Count(content, Id(config_group_ref)) <= 1
     /\ Count(content, root_group_child[1]) <= 1
     /\ Count(disk, Id(config_group_ref)) <= 1
     /\ Count(disk, root_group_child[1]) <= 1
     /\ Added(start, content, root_group_child[1]) <= Added(start, content, Id(config_group_ref))
     /\ MentionsId(config_group_ref, section_body(start, "PBXGroup")) =>
          /\ section_body(content, "PBXGroup") = section_body(start, "PBXGroup")
          /\ Added(start, content, root_group_child[1]) = 0

C10_Witness ==
  /\ C10_Precondition /\ Finished /\ runs >= 2
  /\ MentionsId(config_group_ref, section_body(start, "PBXGroup"))
  /\ Count(disk, Id(config_group_ref)) = 1
  /\ Count(disk, root_group_child[1]) = 1

====
